---- MODULE Spec2Model ----
(***************************************************************************)
(* Model of the Website / StaticWebsite component resources of             *)
(* src/website.ts.  The file holds three generations of the component:     *)
(*   "Website"           lines    1..502  (protocol/site/dns/cdn/api)      *)
(*   "StaticWebsite"     lines  504..932  (siteRoot, cdn flag, api block)  *)
(*   "StaticWebsiteFlat" lines 934..1232  (siteRoot, flat api route list)  *)
(* A behaviour is one program run: the constructor executes synchronously  *)
(* in four steps, then the asynchronous continuations (zone lookups, the   *)
(* upload callback, the engine realizing the declared resources) run in    *)
(* any order.                                                              *)
(***************************************************************************)
EXTENDS Integers, Sequences, FiniteSets, TLC

VARIABLES
    self,        \* name of the component instance under construction
    given,       \* the configuration as the caller wrote it
    variant,     \* which generation of the component is constructed
    args,        \* the caller's configuration object (Website mutates it)
    routePath,   \* heap of the caller's route objects: route id -> path
    dryRun,      \* pulumi.runtime.isDryRun()
    pc,          \* position of the constructor
    resources,   \* resources declared so far, in declaration order
    outputs,     \* this.outputs / the output properties of the component
    registered,  \* bundles handed to registerOutputs, with the number of
                 \* resources declared at that moment
    zone,        \* state of each aws.route53.getZone promise
    upload,      \* state of the bucket.id.apply upload callback
    puts,        \* state of each s3.putObject call of the batch
    putCalls,    \* number of putObject calls issued
    realized,    \* names of the resources the engine has created
    log          \* pulumi.log lines

vars == <<self, given, variant, args, routePath, dryRun, pc, resources, outputs,
          registered, zone, upload, puts, putCalls, realized, log>>

----------------------------------------------------------------------------
(* Bounds *)

MaxFiles == 2      \* files found under the site root by glob.sync
MaxRoutes == 2     \* length of the caller's route list

----------------------------------------------------------------------------
(* JavaScript values *)

Undefined == "<undefined>"     \* the value undefined (of a string field)
NoNum == -1                    \* the value undefined (of a number field)

\* truthiness of a string / a number
Truthy(s) == s \notin {Undefined, ""}
TruthyNum(n) == n \notin {NoNum, 0}

\* `${v}` in a template literal
Str(v) == IF v = Undefined THEN "undefined" ELSE v

\* one element of Array.prototype.join: undefined joins as the empty string
JoinElem(v) == IF v = Undefined THEN "" ELSE v

\* the join without its separator
Join_NoSeparator(host, domain) == JoinElem(host) \o JoinElem(domain)

\* [ host, domain ].join(".")
Join(host, domain) == JoinElem(host) \o "." \o JoinElem(domain)

\* a || b
OrElse(a, b) == IF Truthy(a) THEN a ELSE b
OrElseNum(a, b) == IF TruthyNum(a) THEN a ELSE b

Range(s) == {s[i] : i \in 1..Len(s)}

----------------------------------------------------------------------------
(* Values the cloud provider assigns; opaque to the component *)

InstanceName == "my-site"
BucketEndpoint == "website-bucket.s3-website.amazonaws.com"
AssignedBucketName == "website-bucket-3fa140b"
AssignedLogsBucketName == "website-logs-bucket-56c3ea2"
CdnDomain == "d1lrmibvyanw0m.cloudfront.net"
ApiHost == "mhwjazmf86.execute-api.amazonaws.com"
ProvisionedCertArn == "arn:website-cert"
TenMinutes == 600

----------------------------------------------------------------------------
(* Configurations *)

Variants == {"Website", "StaticWebsite", "StaticWebsiteFlat"}

RouteIds == 1..MaxRoutes
RoutePaths == [i \in RouteIds |-> IF i = 1 THEN "/hello" ELSE "/r" \o ToString(i)]

\* the route lists a caller passes: arrays of distinct route objects
RouteLists == {[i \in 1..n |-> i] : n \in 0..MaxRoutes}

NoArgs ==
    [protocol |-> Undefined,
     site |-> FALSE, root |-> Undefined,
     defaultDoc |-> Undefined, errorDoc |-> Undefined,
     dns |-> FALSE, domain |-> Undefined, host |-> Undefined,
     cdn |-> FALSE, certificateARN |-> Undefined, cacheTTL |-> NoNum,
     logs |-> FALSE,
     api |-> FALSE, prefix |-> Undefined, routes |-> <<>>]

DocChoices == {<<Undefined, Undefined>>, <<"home.html", "oops.html">>,
               <<"home.html", Undefined>>}
DnsChoices == {<<Undefined, Undefined>>, <<"www", "example.com">>,
               <<"www", Undefined>>, <<Undefined, "example.com">>}
\* <<certificateARN, cacheTTL, logs>>
CdnChoices == {<<Undefined, NoNum, FALSE>>, <<"arn:supplied", NoNum, FALSE>>,
               <<Undefined, 300, FALSE>>, <<Undefined, NoNum, TRUE>>}

\* <<api block present, prefix, routes>>; an api block may hold no route
ApiChoices ==
    {<<FALSE, Undefined, <<>>>>} \cup {<<TRUE, "api", r>> : r \in RouteLists}

\* WebsiteArgs (src/website.ts 11..35)
WebsiteConfigs ==
    {[NoArgs EXCEPT !.protocol = p,
                    !.site = s, !.root = IF s THEN "./site" ELSE Undefined,
                    !.defaultDoc = IF s THEN d[1] ELSE Undefined,
                    !.errorDoc = IF s THEN d[2] ELSE Undefined,
                    !.dns = Truthy(n[1]) \/ Truthy(n[2]),
                    !.host = n[1], !.domain = n[2],
                    !.cdn = (c # <<Undefined, NoNum, FALSE>>),
                    !.certificateARN = c[1], !.cacheTTL = c[2], !.logs = c[3],
                    !.api = r[1], !.prefix = r[2], !.routes = r[3]] :
        p \in {Undefined, "http", "https"}, s \in BOOLEAN, d \in DocChoices,
        n \in DnsChoices, c \in CdnChoices, r \in ApiChoices}

\* StaticWebsiteArgs (src/website.ts 518..567); indexDocument, errorDocument,
\* cacheTtlInSeconds and siteRoot are held in defaultDoc, errorDoc, cacheTTL
\* and root
StaticWebsiteConfigs ==
    {[NoArgs EXCEPT !.site = TRUE, !.root = "./site",
                    !.defaultDoc = d[1], !.errorDoc = d[2],
                    !.host = n[1], !.domain = n[2],
                    !.cdn = c, !.logs = l, !.cacheTTL = t,
                    !.api = r[1], !.prefix = r[2], !.routes = r[3]] :
        d \in DocChoices, n \in DnsChoices, c \in BOOLEAN, l \in BOOLEAN,
        t \in {NoNum, 300}, r \in ApiChoices}

\* StaticWebsiteArgs (src/website.ts 948..984); api is the flat route list
StaticWebsiteFlatConfigs ==
    {[NoArgs EXCEPT !.site = TRUE, !.root = "./site",
                    !.defaultDoc = d[1], !.errorDoc = d[2],
                    !.host = n[1], !.domain = n[2],
                    !.cacheTTL = t,
                    !.api = r[1], !.routes = r[3]] :
        d \in DocChoices, n \in DnsChoices, t \in {NoNum, 300},
        r \in ApiChoices}

ConfigsOf(v) ==
    CASE v = "Website" -> WebsiteConfigs
      [] v = "StaticWebsite" -> StaticWebsiteConfigs
      [] v = "StaticWebsiteFlat" -> StaticWebsiteFlatConfigs

----------------------------------------------------------------------------
(* State after `new X(name, args)` is entered *)

NoOutputs ==
    [bucketName |-> Undefined, bucketWebsiteURL |-> Undefined,
     cdnDomainName |-> Undefined, cdnURL |-> Undefined,
     websiteURL |-> Undefined, websiteLogsBucketName |-> Undefined,
     apiGatewayURL |-> Undefined]

LookupIds == {"cname", "certval", "alias"}

Init ==
    /\ self = InstanceName
    /\ variant \in Variants
    /\ args \in ConfigsOf(variant)
    /\ given = args
    /\ routePath = RoutePaths
    /\ dryRun \in BOOLEAN
    /\ pc = "bucket"
    /\ resources = <<>>
    /\ outputs = NoOutputs
    /\ registered = <<>>
    /\ zone = [l \in LookupIds |-> "none"]
    /\ upload = "none"
    /\ puts = <<>>
    /\ putCalls = 0
    /\ realized = {}
    /\ log = {}

----------------------------------------------------------------------------
(* Getters *)

\* the getters composing a name from whatever is supplied
DomainName_Partial(v, a) == Join(a.host, a.domain)

\* get domainName(): Website 476..481, StaticWebsite 576..580; the flat
\* StaticWebsite joins unconditionally in its constructor (1022)
DomainName(v, a) ==
    CASE v = "Website" ->
            IF a.dns /\ Truthy(a.domain) /\ Truthy(a.host)
            THEN Join(a.host, a.domain) ELSE Undefined
      [] v = "StaticWebsite" ->
            IF Truthy(a.host) /\ Truthy(a.domain)
            THEN Join(a.host, a.domain) ELSE Undefined
      [] v = "StaticWebsiteFlat" -> Join(a.host, a.domain)

\* the resources of this instance (this.bucket, this.api, this.cdn, ...)
Declared(name) ==
    \E i \in 1..Len(resources) :
        resources[i].name = name /\ resources[i].parent = self
ResourceNamed(name) ==
    resources[CHOOSE i \in 1..Len(resources) :
                  resources[i].name = name /\ resources[i].parent = self]
DeclaredOfType(t) == {i \in 1..Len(resources) : resources[i].type = t}

\* bucket.websiteEndpoint and bucket.bucket as the provider reports them
WebsiteEndpointOf(explicitName) ==
    IF Truthy(explicitName) THEN explicitName \o ".s3-website.amazonaws.com"
    ELSE BucketEndpoint
BucketNameOf(explicitName) ==
    IF Truthy(explicitName) THEN explicitName ELSE AssignedBucketName

\* get bucketEndpoint(), apiEndpoint(), cdnEndpoint(), url() of the flat
\* StaticWebsite (993..1014)
ApiUrl(stage) == "https://" \o ApiHost \o "/" \o stage \o "/"
bucketEndpoint == "http://" \o BucketEndpoint
apiEndpoint == IF Declared("website-api") THEN ApiUrl("stage") ELSE Undefined
cdnEndpoint == IF Declared("website-cdn") THEN "https://" \o CdnDomain ELSE Undefined
url ==
    IF Declared("website-cdn")
    THEN "https://" \o Str(DomainName("StaticWebsiteFlat", args))
    ELSE bucketEndpoint

----------------------------------------------------------------------------
(* Resource declarations: one operator per `new` expression.  Every        *)
(* resource carries the options object passed as third argument (parent,   *)
(* provider, dependsOn), the names of the resources its inputs reference   *)
(* (refs) and the zone-lookup promise used as an input (zoneLookup).       *)

Resource(type, name, parent, provider, refs, dependsOn, zoneLookup, props) ==
    [type |-> type, name |-> name, parent |-> parent, provider |-> provider,
     refs |-> refs, dependsOn |-> dependsOn, zoneLookup |-> zoneLookup,
     props |-> props]

\* new aws.s3.Bucket("website-bucket", ...): 109..123, 598..611, 1024..1037
WebsiteBucket(explicitBucketName, indexDocument, errorDocument) ==
    Resource("aws:s3:Bucket", "website-bucket", self, "default",
             {}, {}, "none",
             [bucket |-> explicitBucketName,
              indexDocument |-> indexDocument,
              errorDocument |-> errorDocument,
              acl |-> "public-read", forceDestroy |-> TRUE])

\* the record declared without the parent option
CnameRecord_NoParent(bucketName, host, endpoint) ==
    Resource("aws:route53:Record", bucketName, Undefined, "default",
             {"website-bucket"}, {}, "none",
             [name |-> host, type |-> "CNAME", ttl |-> TenMinutes,
              records |-> <<endpoint>>, aliases |-> <<>>])

\* new aws.route53.Record(bucketName, {type: "CNAME", ...}): 172..186
CnameRecord(bucketName, host, endpoint) ==
    Resource("aws:route53:Record", bucketName, self, "default",
             {"website-bucket"}, {}, "none",
             [name |-> host, type |-> "CNAME", ttl |-> TenMinutes,
              records |-> <<endpoint>>, aliases |-> <<>>])

\* new awsx.apigateway.API("website-api", ...): 202..214, 649..661, 1040..1048
WebsiteApi(stageName, routes) ==
    Resource("aws:apigateway:x:API", "website-api", self, "default",
             {}, {}, "none",
             [stageName |-> stageName, routes |-> routes])

\* new aws.Provider("website-cert-provider", ...): 384..392, 841..849, 1055..1063
CertProvider ==
    Resource("pulumi:providers:aws", "website-cert-provider", self,
             "default", {}, {}, "none", [region |-> "us-east-1"])

\* the certificate requested through the default provider
Certificate_DefaultProvider(domainName) ==
    Resource("aws:acm:Certificate", "website-cert", self,
             "default", {}, {}, "none",
             [domainName |-> domainName, validationMethod |-> "DNS"])

\* new aws.acm.Certificate("website-cert", ...): 394..404, 851..861, 1065..1075
Certificate(domainName) ==
    Resource("aws:acm:Certificate", "website-cert", self,
             "website-cert-provider", {"website-cert-provider"}, {}, "none",
             [domainName |-> domainName, validationMethod |-> "DNS"])

\* new aws.route53.Record("website-cert-validation-record", ...):
\* 409..423, 866..880 (zoneId is the pending promise), 1081..1095 (zoneId is
\* the awaited zone, ttl is cacheTtl)
CertValidationRecord(zoneLookup, ttl) ==
    Resource("aws:route53:Record", "website-cert-validation-record",
             self, "default", {"website-cert"}, {}, zoneLookup,
             [name |-> "validation-option-name", type |-> "validation-option-type",
              ttl |-> ttl, records |-> <<"validation-option-value">>,
              aliases |-> <<>>])

\* the validation without its reference to the validation record
CertificateValidation_NoRecordRef ==
    Resource("aws:acm:CertificateValidation", "website-cert-validation",
             self, "website-cert-provider",
             {"website-cert", "website-cert-provider"}, {}, "none",
             [certificateArn |-> ProvisionedCertArn,
              validationRecordFqdns |-> <<>>])

\* new aws.acm.CertificateValidation("website-cert-validation", ...):
\* 425..437, 882..894, 1097..1109
CertificateValidation ==
    Resource("aws:acm:CertificateValidation", "website-cert-validation",
             self, "website-cert-provider",
             {"website-cert", "website-cert-validation-record",
              "website-cert-provider"}, {}, "none",
             [certificateArn |-> ProvisionedCertArn,
              validationRecordFqdns |-> <<"website-cert-validation-record">>])

\* new aws.s3.Bucket("website-logs-bucket", ...): 449..457, 906..914
LogsBucket ==
    Resource("aws:s3:Bucket", "website-logs-bucket", self, "default",
             {}, {}, "none",
             [bucket |-> Undefined, indexDocument |-> Undefined,
              errorDocument |-> Undefined, acl |-> Undefined,
              forceDestroy |-> TRUE])

\* new aws.cloudfront.Distribution("website-cdn", distributionArgs, opts):
\* 469..473, 926..930, 1169..1175
Distribution(distributionArgs, refs, dependsOn) ==
    Resource("aws:cloudfront:Distribution", "website-cdn", self,
             "default", refs, dependsOn, "none", distributionArgs)

\* the alias record without target-health evaluation
AliasRecord_NoTargetHealth(domainName, host, zoneLookup) ==
    Resource("aws:route53:Record", domainName, self, "default",
             {"website-cdn"}, {}, zoneLookup,
             [name |-> host, type |-> "A", ttl |-> NoNum, records |-> <<>>,
              aliases |-> <<[name |-> CdnDomain, zoneId |-> "cdn-hosted-zone",
                             evaluateTargetHealth |-> FALSE]>>])

\* new aws.route53.Record(domainName, {type: "A", aliases: [...]}):
\* 359..376, 813..830 (zoneId is the pending promise), 1180..1197
AliasRecord(domainName, host, zoneLookup) ==
    Resource("aws:route53:Record", domainName, self, "default",
             {"website-cdn"}, {}, zoneLookup,
             [name |-> host, type |-> "A", ttl |-> NoNum, records |-> <<>>,
              aliases |-> <<[name |-> CdnDomain, zoneId |-> "cdn-hosted-zone",
                             evaluateTargetHealth |-> TRUE]>>])

----------------------------------------------------------------------------
(* Distribution arguments *)

\* bucketOrigin: 233..242, 691..700, 1119..1128
BucketOrigin ==
    [originId |-> "website-bucket", domainName |-> BucketEndpoint,
     originPath |-> Undefined, originProtocolPolicy |-> "http-only"]

\* apiGatewayOrigin: 287..297, 766..776
ApiGatewayOrigin(prefix) ==
    [originId |-> "website-api", domainName |-> ApiHost,
     originPath |-> "/" \o prefix, originProtocolPolicy |-> "https-only"]

\* orderedCacheBehaviors[0]: 305..326, 784..805
ApiCacheBehavior(prefix) ==
    [pathPattern |-> "/" \o prefix \o "/*", targetOriginId |-> "website-api",
     viewerProtocolPolicy |-> "https-only",
     defaultTtl |-> 0, maxTtl |-> 0, minTtl |-> 0,
     queryString |-> TRUE,
     headers |-> <<"Access-Control-Request-Headers",
                   "Access-Control-Request-Method", "Origin", "Authorization">>,
     cookies |-> "none"]

\* defaultCacheBehavior: 252..266, 714..728, 1135..1149
DefaultCacheBehavior(viewerProtocolPolicy, cacheTtl) ==
    [pathPattern |-> Undefined, targetOriginId |-> "website-bucket",
     viewerProtocolPolicy |-> viewerProtocolPolicy,
     defaultTtl |-> cacheTtl, maxTtl |-> cacheTtl, minTtl |-> 0,
     queryString |-> TRUE, headers |-> <<>>, cookies |-> "all"]

\* the literal assigned to distributionArgs: 245..284, 703..746, 1113..1167
DistributionArgs(viewerProtocolPolicy, cacheTtl, responsePagePath) ==
    [enabled |-> TRUE,
     aliases |-> <<>>,
     origins |-> <<BucketOrigin>>,
     defaultCacheBehavior |-> DefaultCacheBehavior(viewerProtocolPolicy, cacheTtl),
     orderedCacheBehaviors |-> <<>>,
     priceClass |-> "PriceClass_100",
     customErrorResponses |->
         <<[errorCode |-> 404, responseCode |-> 404,
            responsePagePath |-> responsePagePath]>>,
     geoRestriction |-> "none",
     viewerCertificate |->
         [cloudfrontDefaultCertificate |-> TRUE, acmCertificateArn |-> Undefined,
          sslSupportMethod |-> "sni-only"],
     loggingConfig |-> [bucket |-> Undefined, includeCookies |-> FALSE]]

\* distributionArgs.origins / orderedCacheBehaviors assignment: 299..327, 778..806
WithApiOrigin(distributionArgs, prefix) ==
    [distributionArgs EXCEPT
        !.origins = <<ApiGatewayOrigin(prefix), BucketOrigin>>,
        !.orderedCacheBehaviors = <<ApiCacheBehavior(prefix)>>]

\* the custom certificate attached without the alias
WithCustomDomain_NoAlias(distributionArgs, domainName, certARN) ==
    [distributionArgs EXCEPT
        !.viewerCertificate =
            [cloudfrontDefaultCertificate |-> FALSE,
             acmCertificateArn |-> certARN, sslSupportMethod |-> "sni-only"]]

\* distributionArgs.aliases / viewerCertificate assignment: 345..353, 754..763
WithCustomDomain(distributionArgs, domainName, certARN) ==
    [distributionArgs EXCEPT
        !.aliases = <<domainName>>,
        !.viewerCertificate =
            [cloudfrontDefaultCertificate |-> FALSE,
             acmCertificateArn |-> certARN, sslSupportMethod |-> "sni-only"]]

\* provisionAndValidateCert(): 381..440, 838..897
ProvisionAndValidateCert(domainName) ==
    <<CertProvider, Certificate(domainName),
      CertValidationRecord("certval", TenMinutes), CertificateValidation>>

\* the distribution without its dependency on the log bucket
MakeCDN_NoDependsOn(distributionArgs, refs, logs) ==
    IF logs
    THEN <<LogsBucket,
           Distribution([distributionArgs EXCEPT
                            !.loggingConfig = [bucket |-> "website-logs-bucket",
                                               includeCookies |-> FALSE]],
                        refs, {})>>
    ELSE <<Distribution(distributionArgs, refs, {})>>

\* makeCDN(distributionArgs): 442..474, 899..931.  refs are the resources
\* whose outputs the arguments use.
MakeCDN(distributionArgs, refs, logs) ==
    IF logs
    THEN <<LogsBucket,
           Distribution([distributionArgs EXCEPT
                            !.loggingConfig = [bucket |-> "website-logs-bucket",
                                               includeCookies |-> FALSE]],
                        refs \cup {"website-logs-bucket"},
                        {"website-logs-bucket"})>>
    ELSE <<Distribution(distributionArgs, refs, {})>>

\* a certificate provisioned whatever was passed in
CertificateSupplied_Never(a) == FALSE

\* this.args.cdn && this.args.cdn.certificateARN: 339
CertificateSupplied(a) == a.cdn /\ Truthy(a.certificateARN)

\* Website.provisionCDN(bucket): 229..379.  hasApi is this.api.
WebsiteProvisionCDN(a, hasApi) ==
    LET dn == DomainName("Website", a)
        cacheTtl == TenMinutes
        base == DistributionArgs("redirect-to-https", cacheTtl,
                                 "/$" \o OrElse(a.errorDoc, "404.html"))
        withApi == hasApi /\ a.api /\ Truthy(a.prefix)
        args1 == IF withApi THEN WithApiOrigin(base, a.prefix) ELSE base
        refs1 == {"website-bucket"} \cup (IF withApi THEN {"website-api"} ELSE {})
        logs == a.cdn /\ a.logs
        supplied == CertificateSupplied(a)
    IN  IF ~a.dns \/ ~Truthy(dn)
        THEN MakeCDN(args1, refs1, logs)
        ELSE (IF supplied THEN <<>> ELSE ProvisionAndValidateCert(dn))
             \o MakeCDN(WithCustomDomain(args1, dn,
                            IF supplied THEN a.certificateARN
                            ELSE ProvisionedCertArn),
                        refs1 \cup (IF supplied THEN {} ELSE {"website-cert"}),
                        logs)
             \o <<AliasRecord(dn, a.host, "alias")>>

\* StaticWebsite.provisionCDN(): 687..836
StaticWebsiteProvisionCDN(a, hasApi) ==
    LET dn == DomainName("StaticWebsite", a)
        cacheTtl == TenMinutes
        base == DistributionArgs("https-only", cacheTtl, "/404.html")
        withApi == hasApi /\ a.api /\ Truthy(a.prefix)
    IN  IF Truthy(a.host) /\ Truthy(a.domain) /\ Truthy(dn)
        THEN ProvisionAndValidateCert(dn)
             \o MakeCDN(WithCustomDomain(
                            IF withApi THEN WithApiOrigin(base, a.prefix) ELSE base,
                            dn, ProvisionedCertArn),
                        {"website-bucket", "website-cert"}
                            \cup (IF withApi THEN {"website-api"} ELSE {}),
                        a.logs)
             \o <<AliasRecord(dn, a.host, "alias")>>
        ELSE MakeCDN(base, {"website-bucket"}, a.logs)

\* the zone lookups a provisionCDN call starts: 358 and 406, 812 and 863
LookupsStarted(rs) ==
    {rs[i].zoneLookup : i \in 1..Len(rs)} \ {"none"}

----------------------------------------------------------------------------
(* The constructors, in four synchronous steps *)

\* "Apply defaults": 71..85
WebsiteDefaults(a) ==
    [a EXCEPT !.protocol = OrElse(a.protocol, "http"),
              !.defaultDoc = IF a.site THEN OrElse(a.defaultDoc, "index.html") ELSE @,
              !.errorDoc = IF a.site THEN OrElse(a.errorDoc, "404.html") ELSE @]

\* the bucket named after the host under any protocol
ExplicitBucketName_AnyProtocol(a) ==
    IF a.dns /\ Truthy(a.domain) /\ Truthy(a.host)
    THEN DomainName("Website", a) ELSE Undefined

\* explicitBucketName: 102..106
ExplicitBucketName(a) ==
    IF a.protocol = "http" /\ a.dns /\ Truthy(a.domain) /\ Truthy(a.host)
    THEN DomainName("Website", a) ELSE Undefined

\* Website constructor 65..198: defaults, bucket, upload callback, CNAME
\* lookup, bucket outputs
WebsiteConstructBucket ==
    /\ variant = "Website" /\ pc = "bucket"
    /\ LET a == WebsiteDefaults(args)
           explicitBucketName == ExplicitBucketName(a)
           cname == a.site /\ Truthy(explicitBucketName)
                    /\ a.dns /\ Truthy(a.domain) /\ Truthy(a.host)
       IN  /\ args' = a
           /\ resources' = IF a.site
                           THEN Append(resources,
                                       WebsiteBucket(explicitBucketName,
                                                     a.defaultDoc, a.errorDoc))
                           ELSE resources
           /\ upload' = IF a.site THEN "armed" ELSE "none"
           /\ zone' = IF cname THEN [zone EXCEPT !["cname"] = "pending"] ELSE zone
           /\ outputs' =
                IF a.site
                THEN [outputs EXCEPT
                        !.websiteURL = IF cname
                                       THEN "http://" \o Str(DomainName("Website", a))
                                       ELSE @,
                        !.bucketName = BucketNameOf(explicitBucketName),
                        !.bucketWebsiteURL =
                            "http://" \o WebsiteEndpointOf(explicitBucketName)]
                ELSE outputs
    /\ pc' = "api"
    /\ UNCHANGED <<self, given, variant, routePath, dryRun, registered, puts, putCalls,
                   realized, log>>

\* StaticWebsite constructor 593..645: bucket, upload callback, bucket outputs
StaticWebsiteConstructBucket ==
    /\ variant = "StaticWebsite" /\ pc = "bucket"
    /\ resources' = Append(resources,
                           WebsiteBucket(Undefined,
                                         OrElse(args.defaultDoc, "index.html"),
                                         OrElse(args.errorDoc, "404.html")))
    /\ upload' = "armed"
    /\ outputs' = [outputs EXCEPT
                     !.bucketName = BucketNameOf(Undefined),
                     !.bucketWebsiteURL = "http://" \o WebsiteEndpointOf(Undefined)]
    /\ pc' = "api"
    /\ UNCHANGED <<self, given, variant, args, routePath, dryRun, registered, zone, puts,
                   putCalls, realized, log>>

\* flat StaticWebsite constructor 1019..1037: bucket
FlatConstructBucket ==
    /\ variant = "StaticWebsiteFlat" /\ pc = "bucket"
    /\ resources' = Append(resources,
                           WebsiteBucket(Undefined,
                                         OrElse(args.defaultDoc, "index.html"),
                                         OrElse(args.errorDoc, "404.html")))
    /\ pc' = "api"
    /\ UNCHANGED <<self, given, variant, args, routePath, dryRun, outputs, registered, zone,
                   upload, puts, putCalls, realized, log>>

\* the rewrite applied to the first route only
MapRoutes_FirstOnly(heap, routes, prefix, i) ==
    IF Len(routes) = 0 THEN heap
    ELSE [heap EXCEPT ![routes[1]] = "/" \o Str(prefix) \o @]

\* routes.map(route => { route.path = `/${prefix}${route.path}`; return route; })
\* 206..209, 653..656: the heap after the callback ran on routes[i..]
RECURSIVE MapRoutes(_, _, _, _)
MapRoutes(heap, routes, prefix, i) ==
    IF i > Len(routes) THEN heap
    ELSE MapRoutes([heap EXCEPT ![routes[i]] = "/" \o Str(prefix) \o @],
                   routes, prefix, i + 1)

\* the paths of the route objects of a list
PathsOf(heap, routes) == [i \in 1..Len(routes) |-> heap[routes[i]]]

\* the guard without its length test
WantsApi_AnyRouteList(a) == a.api /\ Truthy(a.prefix)

\* the guard of the API branch: 201, 648
WantsApi(a) == a.api /\ Truthy(a.prefix) /\ Len(a.routes) > 0

\* Website 200..217 and StaticWebsite 647..664: the API gateway
ConstructAPI ==
    /\ variant \in {"Website", "StaticWebsite"} /\ pc = "api"
    /\ IF WantsApi(args)
       THEN LET heap == MapRoutes(routePath, args.routes, args.prefix, 1)
            IN  /\ routePath' = heap
                /\ resources' = Append(resources,
                                       WebsiteApi(args.prefix,
                                                  PathsOf(heap, args.routes)))
                /\ outputs' = [outputs EXCEPT !.apiGatewayURL = ApiUrl(args.prefix)]
       ELSE UNCHANGED <<routePath, resources, outputs>>
    /\ pc' = "cdn"
    /\ UNCHANGED <<self, given, variant, args, dryRun, registered, zone, upload, puts,
                   putCalls, realized, log>>

\* flat StaticWebsite 1039..1049: the API gateway over the flat route list
FlatConstructAPI ==
    /\ variant = "StaticWebsiteFlat" /\ pc = "api"
    /\ resources' = IF args.api /\ Len(args.routes) > 0
                    THEN Append(resources,
                                WebsiteApi(Undefined,
                                           PathsOf(routePath, args.routes)))
                    ELSE resources
    /\ pc' = "cdn"
    /\ UNCHANGED <<self, given, variant, args, routePath, dryRun, outputs, registered, zone,
                   upload, puts, putCalls, realized, log>>

\* zone promises created by a list of declarations
StartLookups(z, rs) ==
    [l \in LookupIds |-> IF l \in LookupsStarted(rs) THEN "pending" ELSE z[l]]

HasLogsBucket(rs) == \E i \in 1..Len(rs) : rs[i].name = "website-logs-bucket"

\* the CDN gated by the cdn block instead of the protocol
WebsiteWantsCDN_ByCdnBlock(hasBucket, a) == hasBucket /\ a.cdn

\* the guard of the CDN branch: 219
WebsiteWantsCDN(hasBucket, a) == hasBucket /\ a.protocol = "https"

\* Website 219..224: the CDN branch
WebsiteConstructCDN ==
    /\ variant = "Website" /\ pc = "cdn"
    /\ IF WebsiteWantsCDN(Declared("website-bucket"), args)
       THEN LET rs == WebsiteProvisionCDN(args, Declared("website-api"))
            IN  /\ resources' = resources \o rs
                /\ zone' = StartLookups(zone, rs)
                /\ outputs' = [outputs EXCEPT
                        !.websiteLogsBucketName =
                            IF HasLogsBucket(rs) THEN AssignedLogsBucketName ELSE @,
                        !.cdnDomainName = CdnDomain,
                        !.cdnURL = "https://" \o CdnDomain,
                        !.websiteURL =
                            "https://" \o Str(DomainName("Website", args))]
       ELSE UNCHANGED <<resources, zone, outputs>>
    /\ pc' = "finish"
    /\ UNCHANGED <<self, given, variant, args, routePath, dryRun, registered, upload, puts,
                   putCalls, realized, log>>

\* a distribution whatever the configuration
StaticWebsiteWantsCDN_Always(a) == TRUE

\* the guard of the CDN branch: 667
StaticWebsiteWantsCDN(a) == (Truthy(a.host) /\ Truthy(a.domain)) \/ a.cdn

\* StaticWebsite 666..674: the CDN branch
StaticWebsiteConstructCDN ==
    /\ variant = "StaticWebsite" /\ pc = "cdn"
    /\ IF StaticWebsiteWantsCDN(args)
       THEN LET rs == StaticWebsiteProvisionCDN(args, Declared("website-api"))
            IN  /\ resources' = resources \o rs
                /\ zone' = StartLookups(zone, rs)
                /\ outputs' = [outputs EXCEPT
                        !.websiteLogsBucketName =
                            IF HasLogsBucket(rs) THEN AssignedLogsBucketName ELSE @,
                        !.cdnDomainName = CdnDomain,
                        !.cdnURL = "https://" \o CdnDomain,
                        !.websiteURL =
                            "https://" \o Str(DomainName("StaticWebsite", args))]
       ELSE UNCHANGED <<resources, zone, outputs>>
    /\ pc' = "finish"
    /\ UNCHANGED <<self, given, variant, args, routePath, dryRun, registered, upload, puts,
                   putCalls, realized, log>>

\* cacheTtl of the flat StaticWebsite: 1052..1053
FlatCacheTtl(a) == OrElseNum(a.cacheTTL, TenMinutes)

\* distributionArgs of the flat StaticWebsite: 1113..1167
FlatDistributionArgs(a) ==
    [DistributionArgs("redirect-to-https", FlatCacheTtl(a), "/404") EXCEPT
        !.aliases = <<DomainName("StaticWebsiteFlat", a)>>,
        !.viewerCertificate =
            [cloudfrontDefaultCertificate |-> FALSE,
             acmCertificateArn |-> ProvisionedCertArn,
             sslSupportMethod |-> "sni-only"]]

\* flat StaticWebsite 1051..1199: provider, certificate, the two async
\* functions up to their first await, the distribution
FlatConstructCDN ==
    /\ variant = "StaticWebsiteFlat" /\ pc = "cdn"
    /\ IF Truthy(args.host) /\ Truthy(args.domain)
       THEN /\ resources' = resources \o
                    <<CertProvider,
                      Certificate(DomainName("StaticWebsiteFlat", args)),
                      Distribution(FlatDistributionArgs(args),
                                   {"website-bucket", "website-cert"}, {})>>
            /\ zone' = [zone EXCEPT !["certval"] = "pending",
                                    !["alias"] = "pending"]
       ELSE UNCHANGED <<resources, zone>>
    /\ pc' = "finish"
    /\ UNCHANGED <<self, given, variant, args, routePath, dryRun, outputs, registered,
                   upload, puts, putCalls, realized, log>>

\* setOutputs(): 483..501, and registerOutputs of StaticWebsite: 676..684
RegisterOutputs ==
    /\ variant \in {"Website", "StaticWebsite"} /\ pc = "finish"
    /\ registered' = Append(registered,
                            [bundle |-> outputs, declared |-> Len(resources)])
    /\ pc' = "done"
    /\ UNCHANGED <<self, given, variant, args, routePath, dryRun, resources, outputs, zone,
                   upload, puts, putCalls, realized, log>>

\* flat StaticWebsite 1201: this.bucket.id.apply(...) ends the constructor;
\* no outputs are registered
FlatConstructFinish ==
    /\ variant = "StaticWebsiteFlat" /\ pc = "finish"
    /\ upload' = "armed"
    /\ pc' = "done"
    /\ UNCHANGED <<self, given, variant, args, routePath, dryRun, resources, outputs,
                   registered, zone, puts, putCalls, realized, log>>

----------------------------------------------------------------------------
(* Asynchronous continuations; they run once the synchronous constructor   *)
(* has returned                                                            *)

\* 170..187: getZone(...).then(zone => new aws.route53.Record(...))
CnameLookupResolved ==
    /\ variant = "Website" /\ pc = "done" /\ zone["cname"] = "pending"
    /\ zone' = [zone EXCEPT !["cname"] = "ok"]
    /\ resources' = Append(resources,
                           CnameRecord(ExplicitBucketName(args), args.host,
                                       WebsiteEndpointOf(ExplicitBucketName(args))))
    /\ UNCHANGED <<self, given, variant, args, routePath, dryRun, pc, outputs, registered,
                   upload, puts, putCalls, realized, log>>

\* 188..190: .catch(err => pulumi.log.info(...))
CnameLookupRejected ==
    /\ variant = "Website" /\ pc = "done" /\ zone["cname"] = "pending"
    /\ zone' = [zone EXCEPT !["cname"] = "failed"]
    /\ log' = log \cup {"info: domain not found, not creating DNS record"}
    /\ UNCHANGED <<self, given, variant, args, routePath, dryRun, pc, resources, outputs,
                   registered, upload, puts, putCalls, realized>>

\* 1078..1109: the first async function after `await getZone`
FlatCertValidationContinue ==
    /\ variant = "StaticWebsiteFlat" /\ pc = "done" /\ zone["certval"] = "pending"
    /\ zone' = [zone EXCEPT !["certval"] = "ok"]
    /\ resources' = resources \o
            <<CertValidationRecord("none", FlatCacheTtl(args)),
              CertificateValidation>>
    /\ UNCHANGED <<self, given, variant, args, routePath, dryRun, pc, outputs, registered,
                   upload, puts, putCalls, realized, log>>

\* 1178..1197: the second async function after `await getZone`
FlatAliasContinue ==
    /\ variant = "StaticWebsiteFlat" /\ pc = "done" /\ zone["alias"] = "pending"
    /\ zone' = [zone EXCEPT !["alias"] = "ok"]
    /\ resources' = Append(resources,
            AliasRecord(DomainName("StaticWebsiteFlat", args),
                        OrElse(args.host, "should-not-be-necessary"), "none"))
    /\ UNCHANGED <<self, given, variant, args, routePath, dryRun, pc, outputs, registered,
                   upload, puts, putCalls, realized, log>>

\* 1077..1110, 1177..1198: `await getZone` throws inside an async function
\* whose promise nobody handles
FlatLookupRejected(l) ==
    /\ variant = "StaticWebsiteFlat" /\ pc = "done" /\ zone[l] = "pending"
    /\ zone' = [zone EXCEPT ![l] = "failed"]
    /\ log' = log \cup {"unhandled rejection: " \o l}
    /\ UNCHANGED <<self, given, variant, args, routePath, dryRun, pc, resources, outputs,
                   registered, upload, puts, putCalls, realized>>

\* 358/363, 406/412, 812/817, 863/869: the promise passed as zoneId settles
ZoneInputSettled(l, ok) ==
    /\ variant \in {"Website", "StaticWebsite"} /\ pc = "done"
    /\ l \in {"certval", "alias"} /\ zone[l] = "pending"
    /\ zone' = [zone EXCEPT ![l] = IF ok THEN "ok" ELSE "failed"]
    /\ UNCHANGED <<self, given, variant, args, routePath, dryRun, pc, resources, outputs,
                   registered, upload, puts, putCalls, realized, log>>

\* a resource whose zoneId promise rejected cannot be registered: 363, 412,
\* 817, 869
RegistrationRejected(r) ==
    r.zoneLookup # "none" /\ zone[r.zoneLookup] = "failed"

\* the program run has failed: a registration was rejected, or a rejection
\* went unhandled (1077..1110, 1177..1198); the caught rejection of 188..190
\* does not fail the run
RunFailed ==
    \/ \E i \in 1..Len(resources) : RegistrationRejected(resources[i])
    \/ variant = "StaticWebsiteFlat"
          /\ \E l \in {"certval", "alias"} : zone[l] = "failed"

\* The engine creates a declared resource once everything it references or
\* depends on exists and its promised inputs have resolved; it starts
\* nothing after the run has failed
CanRealize(r) ==
    /\ r.name \notin realized
    /\ (r.refs \cup r.dependsOn) \subseteq realized
    /\ r.zoneLookup # "none" => zone[r.zoneLookup] = "ok"

EngineRealize(i) ==
    /\ pc = "done"
    /\ ~RunFailed
    /\ CanRealize(resources[i])
    /\ realized' = realized \cup {resources[i].name}
    /\ UNCHANGED <<self, given, variant, args, routePath, dryRun, pc, resources, outputs,
                   registered, zone, upload, puts, putCalls, log>>

\* 126..138, 613..619, 1201..1207: the callback of bucket.id.apply up to the
\* dry-run check; n is files.length
UploadSkipped(n) ==
    /\ upload = "armed" /\ "website-bucket" \in realized
    /\ dryRun
    /\ upload' = "skipped"
    /\ log' = log \cup {"info: skipping upload of " \o ToString(n) \o " files"}
    /\ UNCHANGED <<self, given, variant, args, routePath, dryRun, pc, resources, outputs,
                   registered, zone, puts, putCalls, realized>>

\* the upload without the dry-run check before it
UploadStarted_NoDryRunCheck(n) ==
    /\ upload = "armed" /\ "website-bucket" \in realized
    /\ puts' = [f \in 1..n |-> "pending"]
    /\ putCalls' = putCalls + n
    /\ upload' = IF n = 0 THEN "uploaded" ELSE "uploading"
    /\ log' = log \cup {"info: uploading " \o ToString(n) \o " files"}
              \cup (IF n = 0 THEN {"info: uploaded"} ELSE {})
    /\ UNCHANGED <<self, given, variant, args, routePath, dryRun, pc, resources,
                   outputs, registered, zone, realized>>

\* 140..155, 621..636, 1209..1224: files.map(file => s3.putObject(...))
UploadStarted(n) ==
    /\ upload = "armed" /\ "website-bucket" \in realized
    /\ ~dryRun
    /\ puts' = [f \in 1..n |-> "pending"]
    /\ putCalls' = putCalls + n
    /\ upload' = IF n = 0 THEN "uploaded" ELSE "uploading"
    /\ log' = log \cup {"info: uploading " \o ToString(n) \o " files"}
              \cup (IF n = 0 THEN {"info: uploaded"} ELSE {})
    /\ UNCHANGED <<self, given, variant, args, routePath, dryRun, pc, resources, outputs,
                   registered, zone, realized>>

\* the batch without its catch: a rejected upload is not logged
PutSettled_NoCatch(f, ok) ==
    /\ f \in 1..Len(puts) /\ puts[f] = "pending"
    /\ puts' = [puts EXCEPT ![f] = IF ok THEN "ok" ELSE "failed"]
    /\ IF upload = "uploading" /\ ~ok
       THEN /\ upload' = "failed"
            /\ UNCHANGED log
       ELSE IF upload = "uploading" /\ \A g \in 1..Len(puts) : puts'[g] = "ok"
       THEN /\ upload' = "uploaded"
            /\ log' = log \cup {"info: uploaded"}
       ELSE UNCHANGED <<upload, log>>
    /\ UNCHANGED <<self, given, variant, args, routePath, dryRun, pc, resources,
                   outputs, registered, zone, putCalls, realized>>

\* the batch whose catch rethrows: the rejection escapes the callback
PutSettled_Escapes(f, ok) ==
    /\ f \in 1..Len(puts) /\ puts[f] = "pending"
    /\ puts' = [puts EXCEPT ![f] = IF ok THEN "ok" ELSE "failed"]
    /\ IF upload = "uploading" /\ ~ok
       THEN /\ upload' = "failed"
            /\ log' = log \cup {"error: upload failed",
                                "unhandled rejection: upload"}
       ELSE IF upload = "uploading" /\ \A g \in 1..Len(puts) : puts'[g] = "ok"
       THEN /\ upload' = "uploaded"
            /\ log' = log \cup {"info: uploaded"}
       ELSE UNCHANGED <<upload, log>>
    /\ UNCHANGED <<self, given, variant, args, routePath, dryRun, pc, resources, outputs,
                   registered, zone, putCalls, realized>>

\* 143..160, 624..641, 1212..1229: one putObject settles; Promise.all
\* resolves when the last one succeeded and rejects on the first failure
PutSettled(f, ok) ==
    /\ f \in 1..Len(puts) /\ puts[f] = "pending"
    /\ puts' = [puts EXCEPT ![f] = IF ok THEN "ok" ELSE "failed"]
    /\ IF upload = "uploading" /\ ~ok
       THEN /\ upload' = "failed"
            /\ log' = log \cup {"error: upload failed"}
       ELSE IF upload = "uploading" /\ \A g \in 1..Len(puts) : puts'[g] = "ok"
       THEN /\ upload' = "uploaded"
            /\ log' = log \cup {"info: uploaded"}
       ELSE UNCHANGED <<upload, log>>
    /\ UNCHANGED <<self, given, variant, args, routePath, dryRun, pc, resources, outputs,
                   registered, zone, putCalls, realized>>

----------------------------------------------------------------------------
(* Specifications *)

\* The name the program gives a second instance of the component.
OtherInstanceName == "other-site"

\* A program that constructs the component a second time, under another
\* name, once the first constructor has returned: either with a fresh copy
\* of the same arguments, or with the very objects (arguments and routes)
\* it passed to the first constructor.
ConstructAgain ==
    /\ pc = "done" /\ self = InstanceName
    /\ self' = OtherInstanceName
    /\ \E sameObjects \in BOOLEAN :
          /\ args' = IF sameObjects THEN args ELSE given
          /\ routePath' = IF sameObjects THEN routePath ELSE RoutePaths
    /\ outputs' = NoOutputs
    /\ pc' = "bucket"
    /\ UNCHANGED <<given, variant, dryRun, resources, registered, zone, upload,
                   puts, putCalls, realized, log>>

Construct ==
    \/ WebsiteConstructBucket
    \/ StaticWebsiteConstructBucket
    \/ FlatConstructBucket
    \/ ConstructAPI
    \/ FlatConstructAPI
    \/ WebsiteConstructCDN
    \/ StaticWebsiteConstructCDN
    \/ FlatConstructCDN
    \/ RegisterOutputs
    \/ FlatConstructFinish

Lookups ==
    \/ CnameLookupResolved
    \/ CnameLookupRejected
    \/ FlatCertValidationContinue
    \/ FlatAliasContinue
    \/ \E l \in {"certval", "alias"} : FlatLookupRejected(l)
    \/ \E l \in {"certval", "alias"}, ok \in BOOLEAN : ZoneInputSettled(l, ok)

Uploads ==
    \/ \E n \in 0..MaxFiles : UploadSkipped(n)
    \/ \E n \in 0..MaxFiles : UploadStarted(n)
    \/ \E f \in 1..MaxFiles, ok \in BOOLEAN : PutSettled(f, ok)

Engine == \E i \in 1..Len(resources) : EngineRealize(i)

Next == Construct \/ Lookups \/ Uploads \/ Engine

Spec == Init /\ [][Next]_vars

\* The synchronous part of a program with two instances: both constructors
\* run to completion before any callback or registration is processed.
NextTwoInstances == Construct \/ ConstructAgain

SpecTwoInstances == Init /\ [][NextTwoInstances]_vars

----------------------------------------------------------------------------
(* Vocabulary of the properties *)

Constructed == pc = "done"
Settled == Constructed /\ \A l \in LookupIds : zone[l] # "pending"

Buckets == DeclaredOfType("aws:s3:Bucket")
Certificates == DeclaredOfType("aws:acm:Certificate")
Validations == DeclaredOfType("aws:acm:CertificateValidation")
Distributions == DeclaredOfType("aws:cloudfront:Distribution")
Records == DeclaredOfType("aws:route53:Record")

\* DNS records of the certificate challenge, and DNS records for the site
ValidationRecords ==
    {i \in Records : resources[i].name = "website-cert-validation-record"}
SiteRecords == Records \ ValidationRecords

\* alias-type records: an alias target with target-health evaluation
IsAliasRecord(r) ==
    /\ r.props.type = "A"
    /\ Len(r.props.aliases) = 1
    /\ r.props.aliases[1].name = CdnDomain
    /\ r.props.aliases[1].evaluateTargetHealth
AliasRecords == {i \in SiteRecords : IsAliasRecord(resources[i])}

\* the record Website makes for the bucket endpoint under http
IsCnameRecord(r) ==
    /\ r.props.type = "CNAME"
    /\ r.props.ttl = 600
    /\ r.props.aliases = <<>>
    /\ r.props.records = <<r.name \o ".s3-website.amazonaws.com">>

HostAndDomain == Truthy(given.host) /\ Truthy(given.domain)
NoDnsBlock == ~Truthy(given.host) /\ ~Truthy(given.domain)

\* the websiteURL output of the component (url in the flat StaticWebsite)
WebsiteURLOutput ==
    IF variant = "StaticWebsiteFlat" THEN url
    ELSE IF registered # <<>> THEN registered[1].bundle.websiteURL
    ELSE Undefined

\* the bucketWebsiteURL output (bucketEndpoint in the flat StaticWebsite)
BucketWebsiteURLOutput ==
    IF variant = "StaticWebsiteFlat" THEN bucketEndpoint
    ELSE IF registered # <<>> THEN registered[1].bundle.bucketWebsiteURL
    ELSE Undefined

----------------------------------------------------------------------------
(* C1 .. C10 *)

\* C1: a configuration without domain and host gets no certificate and no
\* DNS record for the site, and its websiteURL is the bucket's website
\* endpoint under http (an unset websiteURL next to a bucketWebsiteURL of
\* that value is accepted as the fallback), whatever the protocol.
C1_NoDnsFallsBackToBucket ==
    (Constructed /\ NoDnsBlock /\ Declared("website-bucket")) =>
        /\ Certificates = {}
        /\ SiteRecords = {}
        /\ \/ WebsiteURLOutput = "http://" \o BucketEndpoint
           \/ /\ WebsiteURLOutput = Undefined
              /\ BucketWebsiteURLOutput = "http://" \o BucketEndpoint

\* C2 as claimed: with domain and host (and a site to point at), once the
\* run has settled exactly one alias record (alias target, target health
\* evaluated) named by host exists.
C2_ExactlyOneAliasRecord ==
    (Settled /\ HostAndDomain /\ Declared("website-bucket")) =>
        /\ DomainName(variant, args) = given.host \o "." \o given.domain
        /\ Cardinality(AliasRecords) = 1
        /\ \A i \in AliasRecords : resources[i].props.name = given.host

\* the variants/configurations that put a distribution in front of the site
UsesCdnRecord ==
    \/ variant \in {"StaticWebsite", "StaticWebsiteFlat"}
    \/ variant = "Website" /\ given.site /\ given.protocol = "https"
UsesCnameRecord ==
    variant = "Website" /\ given.site /\ given.protocol \in {Undefined, "http"}

\* C2 amended: with domain and host, the composed hostname is host.domain
\* and at most one DNS record for the site is declared, named by host and
\* with logical name host.domain.  In front of a distribution it is an A
\* alias record with target health evaluated: exactly one once Website
\* (https, with a site) or StaticWebsite is constructed, and in the flat
\* StaticWebsite one exactly when the zone lookup resolved.  Website under
\* http (with a site) makes a CNAME record with TTL 600 to the bucket
\* endpoint instead, exactly when the zone lookup resolved.  Website
\* without a site makes none.
C2_AtMostOneSiteRecord ==
    HostAndDomain =>
        /\ DomainName(variant, args) = given.host \o "." \o given.domain
        /\ Cardinality(SiteRecords) <= 1
        /\ \A i \in SiteRecords :
              /\ resources[i].props.name = given.host
              /\ resources[i].name = given.host \o "." \o given.domain
              /\ UsesCdnRecord => IsAliasRecord(resources[i])
              /\ UsesCnameRecord => IsCnameRecord(resources[i])
        /\ (UsesCdnRecord /\ Constructed /\ variant # "StaticWebsiteFlat")
              => Cardinality(SiteRecords) = 1
        /\ (Constructed /\ variant = "StaticWebsiteFlat")
              => (Cardinality(SiteRecords) = 1 <=> zone["alias"] = "ok")
        /\ (UsesCnameRecord /\ Constructed)
              => (Cardinality(SiteRecords) = 1 <=> zone["cname"] = "ok")
        /\ (~UsesCdnRecord /\ ~UsesCnameRecord) => SiteRecords = {}

C2_Witness ==
    /\ HostAndDomain /\ Settled
    /\ variant = "Website" /\ args.protocol = "http"
    /\ Cardinality(SiteRecords) = 1
    /\ \A i \in SiteRecords : resources[i].props.type = "CNAME"

\* the API resource and the paths the caller wrote
Api == ResourceNamed("website-api")
OriginalPath(i) == RoutePaths[given.routes[i]]

\* C3 as claimed: every route handed to the gateway has path prefix +
\* original path, nothing else added, and the stage name is the prefix.
C3_PathIsPrefixPlusPath ==
    (Declared("website-api") /\ Truthy(given.prefix)) =>
        /\ Len(Api.props.routes) = Len(given.routes)
        /\ \A i \in 1..Len(given.routes) :
              Api.props.routes[i] = given.prefix \o OriginalPath(i)
        /\ Api.props.stageName = given.prefix

\* C3 amended: every route handed to the gateway has path "/" + prefix +
\* original path, and the stage name is the prefix.
C3_PathIsSlashPrefixPlusPath ==
    (Declared("website-api") /\ Truthy(given.prefix)) =>
        /\ Len(Api.props.routes) = Len(given.routes)
        /\ \A i \in 1..Len(given.routes) :
              Api.props.routes[i] = "/" \o given.prefix \o OriginalPath(i)
        /\ Api.props.stageName = given.prefix

C3_Witness ==
    /\ Declared("website-api") /\ given.prefix = "api"
    /\ Len(given.routes) = 2
    /\ Api.props.routes[1] = "/api/hello"

\* the cache TTL, index and error document a configuration ends up with
Bucket == ResourceNamed("website-bucket")
Cdn == ResourceNamed("website-cdn")

\* C4: the default-filling step leaves an already defaulted configuration
\* as it is, and an explicitly supplied protocol, index document, error
\* document or cache TTL is never replaced by its default.
C4_DefaultsKeepExplicitValues ==
    /\ (variant = "Website" /\ pc # "bucket") => WebsiteDefaults(args) = args
    /\ (variant = "Website" /\ pc # "bucket" /\ Truthy(given.protocol))
          => args.protocol = given.protocol
    /\ Declared("website-bucket") =>
          /\ Truthy(given.defaultDoc) =>
                Bucket.props.indexDocument = given.defaultDoc
          /\ Truthy(given.errorDoc) =>
                Bucket.props.errorDocument = given.errorDoc
    /\ (Declared("website-cdn") /\ TruthyNum(given.cacheTTL)) =>
          /\ Cdn.props.defaultCacheBehavior.defaultTtl = given.cacheTTL
          /\ Cdn.props.defaultCacheBehavior.maxTtl = given.cacheTTL

\* C5: in a dry run no putObject call is ever issued, however many files
\* the site root holds.
C5_DryRunIssuesNoUpload ==
    dryRun => (putCalls = 0 /\ puts = <<>>)

C5_Witness ==
    /\ dryRun /\ upload = "skipped"
    /\ "info: skipping upload of 2 files" \in log

C6Config ==
    [NoArgs EXCEPT !.site = TRUE, !.root = "./site", !.domain = "example.com",
                   !.host = "www", !.cdn = TRUE]

OnlySiteRoot ==
    given = [NoArgs EXCEPT !.site = TRUE, !.root = "./site"]

\* C7: a configuration that sets only the site root declares one bucket
\* and nothing else; bucketWebsiteURL is set and websiteURL (url in the
\* flat StaticWebsite) is unset or the bucket's website endpoint.
C7_SiteRootOnlyScenario ==
    (OnlySiteRoot /\ Constructed) =>
        /\ Cardinality(Buckets) = 1
        /\ Len(resources) = 1
        /\ Certificates = {} /\ Distributions = {} /\ Records = {}
        /\ BucketWebsiteURLOutput = "http://" \o BucketEndpoint
        /\ WebsiteURLOutput \in {Undefined, "http://" \o BucketEndpoint}

C7_Witness ==
    /\ OnlySiteRoot /\ Constructed /\ variant = "StaticWebsite"
    /\ upload = "uploaded"

\* C8: a distribution that uses the provisioned certificate is realized
\* only after the certificate validation has completed.
C8_ValidationBeforeDistribution ==
    ("website-cdn" \in realized
        /\ Cdn.props.viewerCertificate.acmCertificateArn = ProvisionedCertArn)
    => "website-cert-validation" \in realized

\* C9: the outputs are registered exactly once per construction, and no
\* resource is declared after they were registered.
C9_RegisteredOnceAtTheEnd ==
    /\ Constructed => Len(registered) = 1
    /\ Len(registered) <= 1
    /\ \A k \in 1..Len(registered) : registered[k].declared = Len(resources)

\* C10: every declared resource has the component instance as its parent.
C10_EveryResourceIsAChild ==
    \A i \in 1..Len(resources) : resources[i].parent = InstanceName

C10_Witness ==
    /\ Len(resources) >= 7
    /\ \E i \in 1..Len(resources) :
          /\ resources[i].type = "aws:acm:CertificateValidation"
          /\ i > 4
    /\ C10_EveryResourceIsAChild

----------------------------------------------------------------------------
(* C11 .. C20 *)

\* C11: when the zone lookup of the certificate's validation record fails,
\* the provisioning run fails and neither the certificate validation nor
\* the distribution that uses the certificate is created.
C11_ZoneFailureAbortsCertificate ==
    (Declared("website-cert") /\ zone["certval"] = "failed") =>
        /\ RunFailed
        /\ "website-cert-validation" \notin realized
        /\ "website-cdn" \notin realized

\* the lookups made for the site's own DNS record
SiteLookups == {"cname", "alias"}
SiteRecordCreated == \E i \in SiteRecords : resources[i].name \in realized

\* C12: when the zone lookup for the site's DNS record fails, the record
\* is not created, a diagnostic is logged and the run goes on: it has not
\* failed and the outputs are registered; for the record to the bucket
\* endpoint and for the record to the CDN alike.
C12_ZoneFailureSkipsRecord ==
    \A l \in SiteLookups :
        zone[l] = "failed" =>
            /\ ~SiteRecordCreated
            /\ "info: domain not found, not creating DNS record" \in log
            /\ ~RunFailed
            /\ Len(registered) = 1

C14_BlockPresenceActivatesBranch ==
    (/\ variant = "Website" /\ Settled /\ given.site
     /\ given.dns => HostAndDomain
     /\ given.api => Len(given.routes) > 0) =>
        /\ Declared("website-cdn") <=> given.cdn
        /\ Records # {} <=> given.dns
        /\ Declared("website-api") <=> given.api

\* C14 amended: in Website a distribution exists exactly when a site block
\* is present and the protocol is https, whatever the cdn block; DNS
\* records exist only with a site block and a dns block holding both domain
\* and host (from construction on under https, once the zone lookup
\* resolved under http); an API gateway exists exactly when the api block
\* has a prefix and at least one route.
C14_BranchGuards ==
    (variant = "Website" /\ Constructed) =>
        /\ Declared("website-cdn") <=> (given.site /\ given.protocol = "https")
        /\ Declared("website-api") <=>
              (given.api /\ Truthy(given.prefix) /\ Len(given.routes) > 0)
        /\ Records # {} => (given.site /\ given.dns /\ HostAndDomain)
        /\ (given.site /\ given.dns /\ HostAndDomain) =>
              (Records # {} <=> (given.protocol = "https" \/ zone["cname"] = "ok"))

\* the http example program: cdn, dns and api blocks, no distribution
C14_Witness ==
    /\ variant = "Website" /\ Settled
    /\ given.protocol = "http" /\ given.cdn /\ given.dns /\ given.api
    /\ ~Declared("website-cdn") /\ Declared("website-api") /\ Records # {}

\* C15: two instances with different names share no resource identity:
\* no resource type and logical name is declared by both.
C15_InstancesShareNoIdentity ==
    \A i, j \in 1..Len(resources) :
        resources[i].parent # resources[j].parent =>
            <<resources[i].type, resources[i].name>> #
                <<resources[j].type, resources[j].name>>

\* C16: certificate provisioning goes requested -> validation record
\* created -> validated: the validation record is created only once the
\* certificate exists, the validation only once the certificate and the
\* record exist, and a run that has nothing left to do has validated the
\* certificate it requested or has failed on a hosted-zone lookup.
C16_CertificateOrder ==
    /\ "website-cert-validation-record" \in realized =>
          "website-cert" \in realized
    /\ "website-cert-validation" \in realized =>
          {"website-cert", "website-cert-validation-record"} \subseteq realized
    /\ (Constructed /\ Declared("website-cert") /\ ~ENABLED Next) =>
          ("website-cert-validation" \in realized \/ RunFailed)

C16_Witness ==
    /\ Declared("website-cert")
    /\ {"website-cert", "website-cert-validation-record",
        "website-cert-validation"} \subseteq realized
    /\ ~ENABLED Next

\* the cache TTL the program configured, or ten minutes
ConfiguredCacheTtl == OrElseNum(given.cacheTTL, TenMinutes)

\* C17: in the default cache behaviour of every distribution the minimum,
\* default and maximum TTL all equal the configured cache TTL (600 when
\* none is configured).
C17_AllTtlsFromConfig ==
    \A i \in Distributions :
        LET b == resources[i].props.defaultCacheBehavior
        IN  /\ b.minTtl = ConfiguredCacheTtl
            /\ b.defaultTtl = ConfiguredCacheTtl
            /\ b.maxTtl = ConfiguredCacheTtl

\* the four headers forwarded to the gateway
ApiForwardedHeaders ==
    {"Access-Control-Request-Headers", "Access-Control-Request-Method",
     "Origin", "Authorization"}

\* C18: whenever an API gateway and a distribution are both declared, with
\* or without a custom domain, the distribution has an https-only origin
\* for the gateway stage and a cache behaviour for <prefix>/* that targets
\* it with all TTLs 0, forwards the query string and the four headers and
\* forwards no cookies.
C18_ApiOriginWheneverApiAndCdn ==
    (Constructed /\ Declared("website-api")) =>
        \A i \in Distributions :
            LET d == resources[i].props
            IN  /\ \E o \in Range(d.origins) :
                      /\ o.originId = "website-api"
                      /\ o.originProtocolPolicy = "https-only"
                /\ \E b \in Range(d.orderedCacheBehaviors) :
                      /\ b.targetOriginId = "website-api"
                      /\ b.pathPattern \in {Str(given.prefix) \o "/*",
                                            "/" \o Str(given.prefix) \o "/*"}
                      /\ b.minTtl = 0 /\ b.defaultTtl = 0 /\ b.maxTtl = 0
                      /\ b.queryString
                      /\ Range(b.headers) = ApiForwardedHeaders
                      /\ b.cookies = "none"

\* the error document the program configured, or "404.html"
ConfiguredErrorDoc == OrElse(given.errorDoc, "404.html")

\* C19: every distribution maps origin status 404 to response status 404
\* with the page "/" followed by the configured error document.
C19_ErrorPageIsConfiguredDocument ==
    \A i \in Distributions :
        \E e \in Range(resources[i].props.customErrorResponses) :
            /\ e.errorCode = 404
            /\ e.responseCode = 404
            /\ e.responsePagePath = "/" \o ConfiguredErrorDoc

\* a custom domain is configured: host and domain are both given
CustomDomainConfigured == HostAndDomain /\ (variant = "Website" => given.dns)

\* the certificate a custom domain is served with: the one passed in, or
\* the one the component provisions
CustomCertArn == OrElse(given.certificateARN, ProvisionedCertArn)

\* C20: a distribution without a custom domain uses the platform's default
\* certificate and has no alias; a distribution with a custom domain uses
\* the custom certificate, default certificate disabled, and its alias list
\* is exactly the composed hostname.
C20_ViewerCertificateAndAlias ==
    \A i \in Distributions :
        LET d == resources[i].props
        IN  IF CustomDomainConfigured
            THEN /\ ~d.viewerCertificate.cloudfrontDefaultCertificate
                 /\ d.viewerCertificate.acmCertificateArn = CustomCertArn
                 /\ d.aliases = <<given.host \o "." \o given.domain>>
            ELSE /\ d.viewerCertificate.cloudfrontDefaultCertificate
                 /\ d.viewerCertificate.acmCertificateArn = Undefined
                 /\ d.aliases = <<>>

C20_Witness ==
    /\ Constructed /\ CustomDomainConfigured /\ variant # "StaticWebsiteFlat"
    /\ Declared("website-cdn")
    /\ Cdn.props.aliases = <<given.host \o "." \o given.domain>>
    /\ ~Cdn.props.viewerCertificate.cloudfrontDefaultCertificate

----------------------------------------------------------------------------
(* C21 .. C28 *)

\* the websiteLogsBucketName output as registered
LogsBucketNameOutput ==
    IF registered # <<>> THEN registered[1].bundle.websiteLogsBucketName
    ELSE Undefined

\* log capture is set up: bucket, dependency, delivery without cookies, output
LogCaptureSetUp ==
    /\ Declared("website-logs-bucket")
    /\ \A i \in Distributions :
          /\ "website-logs-bucket" \in resources[i].dependsOn
          /\ resources[i].props.loggingConfig.bucket = "website-logs-bucket"
          /\ ~resources[i].props.loggingConfig.includeCookies
    /\ "website-cdn" \in realized => "website-logs-bucket" \in realized
    /\ LogsBucketNameOutput = AssignedLogsBucketName

\* nothing of log capture exists
NoLogCapture ==
    /\ ~Declared("website-logs-bucket")
    /\ \A i \in Distributions :
          /\ resources[i].dependsOn = {}
          /\ resources[i].props.loggingConfig.bucket = Undefined
    /\ LogsBucketNameOutput = Undefined

\* C21 as claimed: whenever log capture is enabled in the configuration the
\* log bucket exists, the distribution depends on it, delivery is configured
\* without cookies and the output is set; otherwise none of these exist.
C21_LogCaptureWheneverEnabled ==
    (Constructed /\ variant # "StaticWebsiteFlat") =>
        IF given.logs THEN LogCaptureSetUp /\ Distributions # {}
        ELSE NoLogCapture

\* C21 amended: log capture is set up exactly when it is enabled and a
\* distribution is created; enabled without a distribution, or not
\* enabled, nothing of it exists.
C21_LogCaptureWithDistribution ==
    (Constructed /\ variant # "StaticWebsiteFlat") =>
        IF given.logs /\ Declared("website-cdn") THEN LogCaptureSetUp
        ELSE NoLogCapture

C21_Witness ==
    /\ Constructed /\ given.logs
    /\ {"website-logs-bucket", "website-cdn"} \subseteq realized
    /\ LogsBucketNameOutput = AssignedLogsBucketName

PinnedTypes == {"aws:acm:Certificate", "aws:acm:CertificateValidation"}

\* C23: the certificate and its validation go through the provider pinned
\* to us-east-1, and no other resource (bucket, API, distribution, DNS
\* record, the provider itself) uses that provider.
C23_RegionPinnedProvider ==
    \A i \in 1..Len(resources) :
        LET r == resources[i]
        IN  /\ r.type \in PinnedTypes =>
                  /\ r.provider = "website-cert-provider"
                  /\ r.provider # "default"
                  /\ \E j \in 1..(i - 1) :
                        /\ resources[j].name = r.provider
                        /\ resources[j].type = "pulumi:providers:aws"
                        /\ resources[j].parent = r.parent
                        /\ resources[j].props.region = "us-east-1"
            /\ r.type \notin PinnedTypes => r.provider = "default"

C23_Witness ==
    /\ \E i \in Certificates : resources[i].provider = "website-cert-provider"
    /\ \E i \in Validations : resources[i].provider = "website-cert-provider"
    /\ \E i \in Distributions : resources[i].provider = "default"
    /\ \E i \in Records : resources[i].provider = "default"

\* the apiGatewayURL output (apiEndpoint in the flat StaticWebsite)
ApiGatewayURLOutput ==
    IF variant = "StaticWebsiteFlat" THEN apiEndpoint
    ELSE IF registered # <<>> THEN registered[1].bundle.apiGatewayURL
    ELSE outputs.apiGatewayURL

\* C24: an API gateway exists, and apiGatewayURL is set, only when the
\* route list is non-empty; with an absent or empty route list there is no
\* gateway and apiGatewayURL stays unset.
C24_ApiOnlyWithRoutes ==
    /\ Declared("website-api") => (given.api /\ Len(given.routes) > 0)
    /\ ApiGatewayURLOutput # Undefined =>
          (Declared("website-api") /\ Len(given.routes) > 0)
    /\ outputs.apiGatewayURL # Undefined => Len(given.routes) > 0
    /\ (~given.api \/ Len(given.routes) = 0) =>
          (~Declared("website-api") /\ ApiGatewayURLOutput = Undefined)

\* an api block with an empty route list, past the API step
C24_Witness ==
    /\ Constructed /\ given.api /\ Len(given.routes) = 0
    /\ ~Declared("website-api") /\ ApiGatewayURLOutput = Undefined

\* exactly one of domain and host is supplied
OnlyOneOfHostAndDomain == Truthy(given.host) # Truthy(given.domain)

\* what could be made of the supplied half: itself, or a partial join
PartialHostnames ==
    {given.host, given.domain, Join(given.host, given.domain),
     Str(given.host) \o "." \o Str(given.domain)} \ {Undefined}

Apis == DeclaredOfType("aws:apigateway:x:API")

\* C26: construction leaves the caller's route objects as they were, so
\* every gateway built from them, by the first instance or by a second one,
\* gets each route under prefix + original path, never a doubly prefixed
\* path.
C26_RoutesKeepTheirPath ==
    variant # "StaticWebsiteFlat" =>
        \A i \in Apis :
            \A k \in 1..Len(resources[i].props.routes) :
                resources[i].props.routes[k] \in
                    {given.prefix \o OriginalPath(k),
                     "/" \o given.prefix \o OriginalPath(k)}

\* the region-pinned providers declared
CertProviders == DeclaredOfType("pulumi:providers:aws")

\* nothing of certificate provisioning exists, the distribution is served
\* with the ARN passed in
UsesSuppliedCertificate ==
    /\ Certificates = {} /\ ValidationRecords = {} /\ Validations = {}
    /\ CertProviders = {}
    /\ Declared("website-cdn")
    /\ Cdn.props.viewerCertificate.acmCertificateArn = given.certificateARN
    /\ "website-cert" \notin Cdn.refs

\* exactly one provider, certificate, validation record and validation
ProvisionsOneCertificate ==
    /\ Cardinality(CertProviders) = 1 /\ Cardinality(Certificates) = 1
    /\ Cardinality(ValidationRecords) = 1 /\ Cardinality(Validations) = 1

\* C27 as claimed: in Website under https with a dns block, a supplied
\* certificateARN means no provider, certificate, validation record or
\* validation and a viewer certificate of exactly that ARN; without it
\* exactly one of each is created.  Stated for programs with a site block,
\* which is what gives them a distribution.
C27_SuppliedOrProvisioned ==
    (/\ variant = "Website" /\ Constructed /\ given.site
     /\ given.protocol = "https" /\ given.dns) =>
        IF Truthy(given.certificateARN) THEN UsesSuppliedCertificate
        ELSE ProvisionsOneCertificate

\* C27 amended: the same, for a Website that also has a site block and
\* whose dns block holds both domain and host.
C27_SuppliedOrProvisionedWithSiteAndName ==
    (/\ variant = "Website" /\ Constructed
     /\ given.protocol = "https" /\ given.dns
     /\ given.site /\ HostAndDomain) =>
        IF Truthy(given.certificateARN) THEN UsesSuppliedCertificate
        ELSE ProvisionsOneCertificate
                 /\ Cdn.props.viewerCertificate.acmCertificateArn =
                        ProvisionedCertArn

C27_Witness ==
    /\ variant = "Website" /\ Constructed
    /\ given.protocol = "https" /\ given.dns /\ given.site /\ HostAndDomain
    /\ Truthy(given.certificateARN) /\ UsesSuppliedCertificate

\* protocol http, given or by default
PlainHttp == given.protocol \in {Undefined, "http"}

\* the case of the named bucket: http with both domain and host
NamedBucketCase == PlainHttp /\ given.dns /\ HostAndDomain

\* the CNAME records declared
CnameRecords == {i \in Records : resources[i].props.type = "CNAME"}

\* C28: in Website (with a site block) the bucket is named host.domain
\* exactly when the protocol is http and domain and host are both set,
\* otherwise the engine names it; exactly in that case websiteURL is
\* http://host.domain and a record named host pointing at the bucket's
\* website endpoint is requested (the zone is looked up, and the record
\* declared once it resolved); under http there is never a distribution, a
\* certificate or a log bucket.
C28_NamedBucketUnderHttp ==
    (variant = "Website" /\ Constructed /\ given.site) =>
        /\ IF NamedBucketCase
           THEN /\ Bucket.props.bucket = given.host \o "." \o given.domain
                /\ WebsiteURLOutput =
                      "http://" \o given.host \o "." \o given.domain
                /\ zone["cname"] # "none"
                /\ zone["cname"] = "ok" =>
                      /\ Cardinality(CnameRecords) = 1
                      /\ \A i \in CnameRecords :
                            /\ resources[i].props.name = given.host
                            /\ resources[i].props.records =
                                  <<WebsiteEndpointOf(Bucket.props.bucket)>>
                            /\ "website-bucket" \in resources[i].refs
                /\ zone["cname"] # "ok" => CnameRecords = {}
           ELSE /\ Bucket.props.bucket = Undefined
                /\ WebsiteURLOutput \notin
                      {"http://" \o Str(given.host) \o "." \o Str(given.domain),
                       "http://" \o Join(given.host, given.domain)}
                /\ zone["cname"] = "none"
                /\ CnameRecords = {}
        /\ PlainHttp =>
              /\ Distributions = {} /\ Certificates = {}
              /\ ~Declared("website-logs-bucket")
              /\ Validations = {} /\ ValidationRecords = {}

C28_Witness ==
    /\ variant = "Website" /\ given.site /\ Settled /\ NamedBucketCase
    /\ given.cdn /\ given.logs
    /\ Bucket.props.bucket = given.host \o "." \o given.domain
    /\ Cardinality(CnameRecords) = 1
    /\ \E i \in CnameRecords : resources[i].name \in realized

====
